---- MODULE Spec2Model ----
(***************************************************************************)
(* Model of movie_recommendation_system.py: the catalog store              *)
(* (load_movies / create_sample_csv), the query methods of                 *)
(* MovieRecommendationSystem, and the menu loop of main().                 *)
(*                                                                         *)
(* Text (a Python str that the code inspects) is a sequence of             *)
(* one-character strings, so that str.lower(), str.strip(), float(), int() *)
(* and the ordering of strings are computed character by character.        *)
(* Titles and directors are never inspected by the code and stay atomic.   *)
(* A rating is a fixed-point number in tenths (9.3 is 93); an average      *)
(* rounded to two decimals is a number in hundredths (9.17 is 917).        *)
(***************************************************************************)
EXTENDS Integers, Sequences, FiniteSets, TLC

VARIABLES
  file,       \* the backing file self.csv_file: [exists, rows]
  movies,     \* self.movies
  pc,         \* position of main(): "load", "create", "menu", "choice",
              \* "failed" (returned after a failed load), "exit", "crash"
  loaded,     \* what the top-level load_movies() returned: "pending", "True", "False"
  nOpen,      \* number of open(..., 'r') attempts made by load_movies
  nCreate,    \* number of create_sample_csv calls
  nRemoved,   \* number of times the environment removed the backing file
  cmd,        \* the command of the current loop iteration and its parsed inputs
  out         \* what the command's handler computed (main's locals)

vars == <<file, movies, pc, loaded, nOpen, nCreate, nRemoved, cmd, out>>

----------------------------------------------------------------------------
(* Characters and text *)

Digits == <<"0","1","2","3","4","5","6","7","8","9">>

Upper == <<"A","B","C","D","E","F","G","H","I","J","K","L","M","N","O","P","Q","R","S","T","U","V","W","X","Y","Z">>

LowerLetters == <<"a","b","c","d","e","f","g","h","i","j","k","l","m","n","o","p","q","r","s","t","u","v","w","x","y","z">>

\* The characters of the model in code point order (a subset of ASCII).
Alphabet == <<" ", "-", ".">> \o Digits \o Upper \o LowerLetters

IndexIn(c, s) == IF \E i \in 1..Len(s) : s[i] = c
                 THEN CHOOSE i \in 1..Len(s) : s[i] = c
                 ELSE 0

Ord(c) == IndexIn(c, Alphabet)

IsDigit(c) == IndexIn(c, Digits) > 0

DigitVal(c) == IndexIn(c, Digits) - 1

IsSpace(c) == c = " "

\* str.lower() on one character
LowerChar(c) == IF IndexIn(c, Upper) > 0 THEN LowerLetters[IndexIn(c, Upper)] ELSE c

\* str.lower()
RECURSIVE Lower(_)
Lower(s) == IF s = <<>> THEN <<>> ELSE <<LowerChar(Head(s))>> \o Lower(Tail(s))

RECURSIVE LStrip(_)
LStrip(s) == IF s # <<>> /\ IsSpace(Head(s)) THEN LStrip(Tail(s)) ELSE s

RECURSIVE RStrip(_)
RStrip(s) == IF s # <<>> /\ IsSpace(s[Len(s)])
             THEN RStrip(SubSeq(s, 1, Len(s) - 1))
             ELSE s

\* str.strip()
Strip(s) == RStrip(LStrip(s))

\* s < t for Python strings: lexicographic by code point
RECURSIVE TextLess(_, _)
TextLess(s, t) ==
  IF t = <<>> THEN FALSE
  ELSE IF s = <<>> THEN TRUE
  ELSE IF Head(s) = Head(t) THEN TextLess(Tail(s), Tail(t))
  ELSE Ord(Head(s)) < Ord(Head(t))

----------------------------------------------------------------------------
(* int() and float() on text.  Covered grammar: surrounding blanks, an     *)
(* optional "-" sign, decimal digits and, for float(), one "." with digits *)
(* on at least one side.  The texts of the model carry at most one digit   *)
(* after the point, which the tenths representation holds exactly.         *)

AllDigits(s) == \A i \in 1..Len(s) : IsDigit(s[i])

RECURSIVE DigitsVal(_)
DigitsVal(s) == IF s = <<>> THEN 0
                ELSE 10 * DigitsVal(SubSeq(s, 1, Len(s) - 1)) + DigitVal(s[Len(s)])

Unsigned(s) == IF s # <<>> /\ Head(s) = "-" THEN Tail(s) ELSE s

Sign(s) == IF s # <<>> /\ Head(s) = "-" THEN -1 ELSE 1

\* int(s) raises ValueError unless IntOk(s)
IntOk(s) == LET u == Unsigned(Strip(s)) IN u # <<>> /\ AllDigits(u)

IntVal(s) == Sign(Strip(s)) * DigitsVal(Unsigned(Strip(s)))

PointAt(u) == IndexIn(".", u)

IntPart(u) == IF PointAt(u) = 0 THEN u ELSE SubSeq(u, 1, PointAt(u) - 1)

FracPart(u) == IF PointAt(u) = 0 THEN <<>> ELSE SubSeq(u, PointAt(u) + 1, Len(u))

\* float(s) raises ValueError unless FloatOk(s)
FloatOk(s) == LET u == Unsigned(Strip(s)) IN
  /\ AllDigits(IntPart(u))
  /\ AllDigits(FracPart(u))
  /\ Len(IntPart(u)) + Len(FracPart(u)) > 0

\* float(s), in tenths
FloatVal(s) == LET u == Unsigned(Strip(s)) IN
  Sign(Strip(s)) * (10 * DigitsVal(IntPart(u))
                    + (IF FracPart(u) = <<>> THEN 0 ELSE DigitVal(Head(FracPart(u)))))

----------------------------------------------------------------------------
(* Values held by a movie dict: the str read from the file, or the number  *)
(* it was coerced to.                                                      *)

StrV(t) == [kind |-> "str", text |-> t, num |-> 0]

FloatV(n) == [kind |-> "float", text |-> <<>>, num |-> n]

IntV(n) == [kind |-> "int", text |-> <<>>, num |-> n]

\* One row as csv.DictReader yields it: every value a str.
Row(title, genre, rating, year, director) ==
  [Title |-> title, Genre |-> genre, Rating |-> StrV(rating), Year |-> StrV(year),
   Director |-> director]

\* The rows create_sample_csv writes after the header.
sample_movies ==
  <<
     Row("The Shawshank Redemption", <<"D","r","a","m","a">>, <<"9",".","3">>, <<"1","9","9","4">>, "Frank Darabont"),
     Row("The Godfather", <<"C","r","i","m","e">>, <<"9",".","2">>, <<"1","9","7","2">>, "Francis Ford Coppola"),
     Row("The Dark Knight", <<"A","c","t","i","o","n">>, <<"9",".","0">>, <<"2","0","0","8">>, "Christopher Nolan"),
     Row("Pulp Fiction", <<"C","r","i","m","e">>, <<"8",".","9">>, <<"1","9","9","4">>, "Quentin Tarantino"),
     Row("Forrest Gump", <<"D","r","a","m","a">>, <<"8",".","8">>, <<"1","9","9","4">>, "Robert Zemeckis"),
     Row("Inception", <<"S","c","i","-","F","i">>, <<"8",".","8">>, <<"2","0","1","0">>, "Christopher Nolan"),
     Row("The Matrix", <<"S","c","i","-","F","i">>, <<"8",".","7">>, <<"1","9","9","9">>, "Wachowski Brothers"),
     Row("Goodfellas", <<"C","r","i","m","e">>, <<"8",".","7">>, <<"1","9","9","0">>, "Martin Scorsese"),
     Row("The Silence of the Lambs", <<"T","h","r","i","l","l","e","r">>, <<"8",".","6">>, <<"1","9","9","1">>, "Jonathan Demme"),
     Row("Saving Private Ryan", <<"W","a","r">>, <<"8",".","6">>, <<"1","9","9","8">>, "Steven Spielberg"),
     Row("Spirited Away", <<"A","n","i","m","a","t","i","o","n">>, <<"8",".","6">>, <<"2","0","0","1">>, "Hayao Miyazaki"),
     Row("The Green Mile", <<"D","r","a","m","a">>, <<"8",".","6">>, <<"1","9","9","9">>, "Frank Darabont"),
     Row("Interstellar", <<"S","c","i","-","F","i">>, <<"8",".","6">>, <<"2","0","1","4">>, "Christopher Nolan"),
     Row("Parasite", <<"T","h","r","i","l","l","e","r">>, <<"8",".","5">>, <<"2","0","1","9">>, "Bong Joon-ho"),
     Row("The Lion King", <<"A","n","i","m","a","t","i","o","n">>, <<"8",".","5">>, <<"1","9","9","4">>, "Roger Allers"),
     Row("Back to the Future", <<"S","c","i","-","F","i">>, <<"8",".","5">>, <<"1","9","8","5">>, "Robert Zemeckis"),
     Row("The Prestige", <<"M","y","s","t","e","r","y">>, <<"8",".","5">>, <<"2","0","0","6">>, "Christopher Nolan"),
     Row("Whiplash", <<"D","r","a","m","a">>, <<"8",".","5">>, <<"2","0","1","4">>, "Damien Chazelle"),
     Row("The Usual Suspects", <<"C","r","i","m","e">>, <<"8",".","5">>, <<"1","9","9","5">>, "Bryan Singer"),
     Row("Toy Story", <<"A","n","i","m","a","t","i","o","n">>, <<"8",".","3">>, <<"1","9","9","5">>, "John Lasseter"),
     Row("Joker", <<"C","r","i","m","e">>, <<"8",".","4">>, <<"2","0","1","9">>, "Todd Phillips"),
     Row("Avengers: Endgame", <<"A","c","t","i","o","n">>, <<"8",".","4">>, <<"2","0","1","9">>, "Russo Brothers"),
     Row("Spider-Man: Into the Spider-Verse", <<"A","n","i","m","a","t","i","o","n">>, <<"8",".","4">>, <<"2","0","1","8">>, "Peter Ramsey"),
     Row("The Departed", <<"C","r","i","m","e">>, <<"8",".","5">>, <<"2","0","0","6">>, "Martin Scorsese"),
     Row("Gladiator", <<"A","c","t","i","o","n">>, <<"8",".","5">>, <<"2","0","0","0">>, "Ridley Scott")
  >>

----------------------------------------------------------------------------
(* Bounds and input domains *)

\* Longest backing file (data rows) drawn at the start.
MaxRows == 2

\* How often the environment may remove the backing file during a load.
MaxRemovals == 1

GenreTexts == { <<"D","r","a","m","a">>, <<"d","r","a","m","a">>, <<"C","r","i","m","e">> }

RatingTexts == { <<"8",".","5">>, <<"9",".","0">>, <<"n","a">> }

YearTexts == { <<"2","0","0","8">>, <<"1","9","9","4",".","0">> }

FileRows == { Row("T", g, r, y, "D") : g \in GenreTexts, r \in RatingTexts, y \in YearTexts }

SeqsUpTo(S, n) == UNION { [1..k -> S] : k \in 0..n }

\* What the user may type at a genre prompt.
GenreInputs == { <<>>, <<"D","R","A","M","A">>, <<"c","r","i","m","e">>, <<" ","W","a","r">> }

\* What the user may type at a rating prompt.
RatingInputs == { <<>>, <<"0">>, <<"8",".","6">>, <<"x">> }

\* What the user may type at a year prompt.
YearInputs == { <<>>, <<"0">>, <<" ","2","0","0","0">>, <<"x">> }

\* What the user may type at the main menu and at the sub-menu of choice 5.
OtherChoices == { "9", "" }

SubChoices == { "1", "2", "3" }

----------------------------------------------------------------------------
(* Catalog store *)

MissingFile == [exists |-> FALSE, rows |-> <<>>]

\* The coercion loop of load_movies over the rows just read.  float() or
\* int() raises at the first value that does not parse: the rows before it
\* are coerced, the failing row keeps its str (its Rating already a float
\* when only Year fails), the rows after it are untouched.
RECURSIVE Coerce(_)
Coerce(ms) ==
  IF ms = <<>> THEN [movies |-> <<>>, ok |-> TRUE]
  ELSE LET m == Head(ms) IN
    IF ~FloatOk(m.Rating.text) THEN [movies |-> ms, ok |-> FALSE]
    ELSE LET m1 == [m EXCEPT !.Rating = FloatV(FloatVal(m.Rating.text))] IN
      IF ~IntOk(m1.Year.text) THEN [movies |-> <<m1>> \o Tail(ms), ok |-> FALSE]
      ELSE LET m2 == [m1 EXCEPT !.Year = IntV(IntVal(m1.Year.text))]
               rest == Coerce(Tail(ms))
           IN [movies |-> <<m2>> \o rest.movies, ok |-> rest.ok]

MainIgnoresLoad(ok) == "menu"

\* main after load_movies returned: the menu loop, or "Failed to load movies."
MainAfterLoad(ok) == IF ok THEN "menu" ELSE "failed"

\* load_movies, the file opened and read: self.movies is assigned the raw
\* rows, then coerced in place; an exception of the loop returns False.
LoadRead ==
  /\ pc = "load"
  /\ file.exists
  /\ LET r == Coerce(file.rows) IN
       /\ movies' = r.movies
       /\ loaded' = IF r.ok THEN "True" ELSE "False"
       /\ pc' = MainAfterLoad(r.ok)
  /\ nOpen' = nOpen + 1
  /\ UNCHANGED <<file, nCreate, nRemoved, cmd, out>>

\* load_movies, open() or the reader raising anything but FileNotFoundError
\* (permissions, decoding): except Exception returns False.
LoadIOError ==
  /\ pc = "load"
  /\ file.exists
  /\ loaded' = "False"
  /\ pc' = MainAfterLoad(FALSE)
  /\ nOpen' = nOpen + 1
  /\ UNCHANGED <<file, movies, nCreate, nRemoved, cmd, out>>

\* load_movies, open() raising FileNotFoundError: goes on to create_sample_csv.
LoadNotFound ==
  /\ pc = "load"
  /\ ~file.exists
  /\ pc' = "create"
  /\ nOpen' = nOpen + 1
  /\ UNCHANGED <<file, movies, loaded, nCreate, nRemoved, cmd, out>>

\* create_sample_csv and the rest of the except FileNotFoundError branch:
\* on success load_movies calls itself and returns what that call returns,
\* on failure it returns False.
CreateSampleCsv ==
  /\ pc = "create"
  /\ nCreate' = nCreate + 1
  /\ \/ /\ file' = [exists |-> TRUE, rows |-> sample_movies]
        /\ pc' = "load"
        /\ UNCHANGED loaded
     \/ /\ loaded' = "False"
        /\ pc' = MainAfterLoad(FALSE)
        /\ UNCHANGED file
  /\ UNCHANGED <<movies, nOpen, nRemoved, cmd, out>>

\* The environment: another process removes the backing file while
\* load_movies is about to open it.
FileRemoved ==
  /\ pc = "load"
  /\ file.exists
  /\ nRemoved < MaxRemovals
  /\ file' = MissingFile
  /\ nRemoved' = nRemoved + 1
  /\ UNCHANGED <<movies, pc, loaded, nOpen, nCreate, cmd, out>>

----------------------------------------------------------------------------
(* Query layer.  Each operator takes self.movies as ms. *)

Min(a, b) == IF a < b THEN a ELSE b

Max(a, b) == IF a > b THEN a ELSE b

Range(s) == { s[i] : i \in 1..Len(s) }

\* An optional argument or dict entry: absent (None, key not in the dict) or given.
Absent(v0) == [given |-> FALSE, val |-> v0]

Given(v) == [given |-> TRUE, val |-> v]

\* Python's truth value of an optional str: None and "" are false.
TruthyText(o) == o.given /\ o.val # <<>>

\* Python's truth value of an optional number: None, 0 and 0.0 are false.
TruthyNum(o) == o.given /\ o.val # 0

\* sorted(list(genres)) of a set of str
RECURSIVE SortedTexts(_)
SortedTexts(S) ==
  IF S = {} THEN <<>>
  ELSE LET m == CHOOSE x \in S : \A y \in S \ {x} : TextLess(x, y)
       IN <<m>> \o SortedTexts(S \ {m})

get_unique_genres(ms) == SortedTexts({ ms[i].Genre : i \in 1..Len(ms) })

filter_by_genre_exact(ms, genre) == SelectSeq(ms, LAMBDA m : m.Genre = genre)

filter_by_genre(ms, genre) ==
  LET target == Lower(genre) IN SelectSeq(ms, LAMBDA m : Lower(m.Genre) = target)

filter_by_year_range(ms, start_year, end_year) ==
  SelectSeq(ms, LAMBDA m : start_year <= m.Year.num /\ m.Year.num <= end_year)

filter_by_min_rating(ms, min_rating) ==
  SelectSeq(ms, LAMBDA m : m.Rating.num >= min_rating)

\* Where a stable descending sort by rating puts m in an already sorted
\* list of the elements before it: behind every element rated >= m.
RECURSIVE InsertDesc(_, _)
InsertDesc(done, m) ==
  IF done = <<>> THEN <<m>>
  ELSE IF Head(done).Rating.num >= m.Rating.num
       THEN <<Head(done)>> \o InsertDesc(Tail(done), m)
       ELSE <<m>> \o done

RECURSIVE SortDesc(_)
SortDesc(ms) ==
  IF ms = <<>> THEN <<>>
  ELSE InsertDesc(SortDesc(SubSeq(ms, 1, Len(ms) - 1)), ms[Len(ms)])

PySortInPlace(lst) == [ret |-> SortDesc(lst), arg |-> SortDesc(lst)]

\* sorted(lst, key=lambda x: x['Rating'], reverse=True): ret is the new
\* list it returns, arg the list object it was given, after the call.
PySorted(lst) == [ret |-> SortDesc(lst), arg |-> lst]

\* lst[:n]
PySlice(lst, n) ==
  IF n >= 0 THEN SubSeq(lst, 1, Min(n, Len(lst)))
  ELSE SubSeq(lst, 1, Max(Len(lst) + n, 0))

\* get_top_movies(n, genre): ret is the returned list, movies is self.movies
\* after the call.  Without a (truthy) genre movies_to_sort is self.movies
\* itself, not a copy.
get_top_movies(ms, n, genre) ==
  LET scoped == ~TruthyText(genre)
      movies_to_sort == IF scoped THEN ms ELSE filter_by_genre(ms, genre.val)
      s == PySorted(movies_to_sort)
  IN [ret |-> PySlice(s.ret, n), movies |-> IF scoped THEN s.arg ELSE ms]

\* The literal 5 of recommend_movies' final slice.
RecommendCap == 5

NoPreferences ==
  [genre |-> Absent(<<>>), min_rating |-> Absent(0),
   year_from |-> Absent(0), year_to |-> Absent(0)]

\* recommend_movies(preferences): it filters and sorts a copy of self.movies.
recommend_movies(ms, preferences) ==
  LET f0 == ms
      f1 == IF TruthyText(preferences.genre)
            THEN LET target == Lower(preferences.genre.val)
                 IN SelectSeq(f0, LAMBDA m : Lower(m.Genre) = target)
            ELSE f0
      f2 == IF TruthyNum(preferences.min_rating)
            THEN SelectSeq(f1, LAMBDA m : m.Rating.num >= preferences.min_rating.val)
            ELSE f1
      f3 == IF TruthyNum(preferences.year_from)
            THEN SelectSeq(f2, LAMBDA m : m.Year.num >= preferences.year_from.val)
            ELSE f2
      f4 == IF TruthyNum(preferences.year_to)
            THEN SelectSeq(f3, LAMBDA m : m.Year.num <= preferences.year_to.val)
            ELSE f3
  IN [ret |-> PySlice(PySorted(f4).ret, RecommendCap), movies |-> ms]

RECURSIVE Sum(_)
Sum(ns) == IF ns = <<>> THEN 0 ELSE Head(ns) + Sum(Tail(ns))

\* p/q rounded to an integer, halves to the even neighbour (q > 0)
RoundHalfEven(p, q) ==
  LET f == p \div q
      r == p % q
  IN IF 2 * r < q THEN f
     ELSE IF 2 * r > q THEN f + 1
     ELSE IF f % 2 = 0 THEN f ELSE f + 1

\* round(statistics.mean(ns), 2): ns in tenths, the result in hundredths.
\* statistics.mean raises StatisticsError on no data.  (Python rounds the
\* binary float nearest to the mean, so a mean that is a decimal half, such
\* as 8.525, may round either way there; no property below reads it.)
MeanRounded(ns) ==
  IF ns = <<>> THEN [raised |-> TRUE, val |-> 0]
  ELSE [raised |-> FALSE, val |-> RoundHalfEven(10 * Sum(ns), Len(ns))]

Ratings(ms) == [i \in 1..Len(ms) |-> ms[i].Rating.num]

\* max(ms, key=...) of a non-empty list: the first element with the largest key
MaxByRating(ms) ==
  ms[CHOOSE i \in 1..Len(ms) :
       /\ \A j \in 1..Len(ms) : ms[j].Rating.num <= ms[i].Rating.num
       /\ \A j \in 1..(i - 1) : ms[j].Rating.num < ms[i].Rating.num]

\* min(ms, key=...) of a non-empty list: the first element with the smallest key
MinByRating(ms) ==
  ms[CHOOSE i \in 1..Len(ms) :
       /\ \A j \in 1..Len(ms) : ms[j].Rating.num >= ms[i].Rating.num
       /\ \A j \in 1..(i - 1) : ms[j].Rating.num > ms[i].Rating.num]

MaxByYear(ms) ==
  ms[CHOOSE i \in 1..Len(ms) :
       /\ \A j \in 1..Len(ms) : ms[j].Year.num <= ms[i].Year.num
       /\ \A j \in 1..(i - 1) : ms[j].Year.num < ms[i].Year.num]

MinByYear(ms) ==
  ms[CHOOSE i \in 1..Len(ms) :
       /\ \A j \in 1..Len(ms) : ms[j].Year.num >= ms[i].Year.num
       /\ \A j \in 1..(i - 1) : ms[j].Year.num > ms[i].Year.num]

\* The genre_stats dict of get_statistics: one key per unique genre, its
\* count and average taken over filter_by_genre(genre).
genre_statistics(ms) ==
  [genre \in { g \in Range(get_unique_genres(ms)) : filter_by_genre(ms, g) # <<>> } |->
     LET genre_movies == filter_by_genre(ms, genre)
     IN [count |-> Len(genre_movies),
         avg_rating |-> MeanRounded(Ratings(genre_movies)).val]]

\* The dict get_statistics builds when nothing raises.
StatsRecord(ms) ==
  [total_movies |-> Len(ms),
   average_rating |-> MeanRounded(Ratings(ms)).val,
   highest_rated |-> MaxByRating(ms),
   lowest_rated |-> MinByRating(ms),
   genre_statistics |-> genre_statistics(ms),
   oldest_movie |-> MinByYear(ms),
   newest_movie |-> MaxByYear(ms)]

get_statistics_placeholder(ms) ==
  IF ms = <<>>
  THEN [raised |-> "", stats |-> <<[total_movies |-> 0, average_rating |-> 0]>>]
  ELSE [raised |-> "", stats |-> <<StatsRecord(ms)>>]

\* get_statistics(): raised names the exception that leaves the call, stats
\* holds the returned dict (none when the call raised).
get_statistics(ms) ==
  IF MeanRounded(Ratings(ms)).raised
  THEN [raised |-> "StatisticsError", stats |-> <<>>]
  ELSE [raised |-> "", stats |-> <<StatsRecord(ms)>>]

----------------------------------------------------------------------------
(* main(): the menu loop.  cmd and out describe the current iteration.     *)

\* The top-5 argument main passes to get_top_movies.
TopN == 5

NoCmd ==
  [choice |-> "", sub |-> "", genre |-> <<>>, valid |-> TRUE,
   start |-> 0, end |-> 0, min_rating |-> 0, preferences |-> NoPreferences]

NoOut ==
  [raised |-> "", genres |-> <<>>, movies |-> <<>>, counts |-> <<>>, stats |-> <<>>]

\* The top of the while loop: the menu is printed and a choice awaited;
\* what the previous iteration computed is no longer used.
PrintMenu ==
  /\ pc = "menu"
  /\ pc' = "choice"
  /\ cmd' = NoCmd
  /\ out' = NoOut
  /\ UNCHANGED <<file, movies, loaded, nOpen, nCreate, nRemoved>>

\* Choice 1: search by genre.
Choice1 ==
  /\ pc = "choice"
  /\ \E typed \in GenreInputs :
       LET genre == Strip(typed) IN
         /\ cmd' = [NoCmd EXCEPT !.choice = "1", !.genre = genre]
         /\ out' = [NoOut EXCEPT !.genres = get_unique_genres(movies),
                                 !.movies = filter_by_genre(movies, genre)]
  /\ pc' = "menu"
  /\ UNCHANGED <<file, movies, loaded, nOpen, nCreate, nRemoved>>

\* Choice 2: search by year range; a ValueError of int() is caught.
Choice2 ==
  /\ pc = "choice"
  /\ \E s \in YearInputs, e \in YearInputs :
       LET st == Strip(s)
           en == Strip(e)
       IN IF IntOk(st) /\ IntOk(en)
          THEN /\ cmd' = [NoCmd EXCEPT !.choice = "2", !.start = IntVal(st), !.end = IntVal(en)]
               /\ out' = [NoOut EXCEPT !.movies =
                            filter_by_year_range(movies, IntVal(st), IntVal(en))]
          ELSE /\ cmd' = [NoCmd EXCEPT !.choice = "2", !.valid = FALSE]
               /\ out' = NoOut
  /\ pc' = "menu"
  /\ UNCHANGED <<file, movies, loaded, nOpen, nCreate, nRemoved>>

\* Choice 3: search by minimum rating; a ValueError of float() is caught.
Choice3 ==
  /\ pc = "choice"
  /\ \E typed \in RatingInputs :
       LET r == Strip(typed) IN
         IF FloatOk(r)
         THEN /\ cmd' = [NoCmd EXCEPT !.choice = "3", !.min_rating = FloatVal(r)]
              /\ out' = [NoOut EXCEPT !.movies = filter_by_min_rating(movies, FloatVal(r))]
         ELSE /\ cmd' = [NoCmd EXCEPT !.choice = "3", !.valid = FALSE]
              /\ out' = NoOut
  /\ pc' = "menu"
  /\ UNCHANGED <<file, movies, loaded, nOpen, nCreate, nRemoved>>

\* The preferences dict choice 4 builds from the four answers: a key is
\* set when the answer is not empty and, for a number, parses.
Preferences(genre_input, rating_input, year_from, year_to) ==
  [genre |-> IF genre_input # <<>> THEN Given(genre_input) ELSE Absent(<<>>),
   min_rating |-> IF rating_input # <<>> /\ FloatOk(rating_input)
                  THEN Given(FloatVal(rating_input)) ELSE Absent(0),
   year_from |-> IF year_from # <<>> /\ IntOk(year_from)
                 THEN Given(IntVal(year_from)) ELSE Absent(0),
   year_to |-> IF year_to # <<>> /\ IntOk(year_to)
               THEN Given(IntVal(year_to)) ELSE Absent(0)]

\* Choice 4: personalized recommendations.
Choice4 ==
  /\ pc = "choice"
  /\ \E g \in GenreInputs, r \in RatingInputs, yf \in YearInputs, yt \in YearInputs :
       LET preferences == Preferences(Strip(g), Strip(r), Strip(yf), Strip(yt))
           rec == recommend_movies(movies, preferences)
       IN /\ cmd' = [NoCmd EXCEPT !.choice = "4", !.preferences = preferences]
          /\ out' = [NoOut EXCEPT !.genres = get_unique_genres(movies), !.movies = rec.ret]
          /\ movies' = rec.movies
  /\ pc' = "menu"
  /\ UNCHANGED <<file, loaded, nOpen, nCreate, nRemoved>>

\* Choice 5: top 5 overall (1), by genre (2), or an invalid sub-choice.
Choice5 ==
  /\ pc = "choice"
  /\ \E sub \in SubChoices :
       \/ /\ sub = "1"
          /\ LET top == get_top_movies(movies, TopN, Absent(<<>>)) IN
               /\ cmd' = [NoCmd EXCEPT !.choice = "5", !.sub = sub]
               /\ out' = [NoOut EXCEPT !.movies = top.ret]
               /\ movies' = top.movies
       \/ /\ sub = "2"
          /\ \E typed \in GenreInputs :
               LET genre == Strip(typed)
                   top == get_top_movies(movies, TopN, Given(genre))
               IN /\ cmd' = [NoCmd EXCEPT !.choice = "5", !.sub = sub, !.genre = genre]
                  /\ out' = [NoOut EXCEPT !.genres = get_unique_genres(movies),
                                          !.movies = top.ret]
                  /\ movies' = top.movies
       \/ /\ sub \notin {"1", "2"}
          /\ cmd' = [NoCmd EXCEPT !.choice = "5", !.sub = sub, !.valid = FALSE]
          /\ out' = NoOut
          /\ UNCHANGED movies
  /\ pc' = "menu"
  /\ UNCHANGED <<file, loaded, nOpen, nCreate, nRemoved>>

\* Choice 6: statistics.  Nothing in main catches what get_statistics
\* raises: the exception leaves main.
Choice6 ==
  /\ pc = "choice"
  /\ LET r == get_statistics(movies) IN
       /\ cmd' = [NoCmd EXCEPT !.choice = "6"]
       /\ out' = [NoOut EXCEPT !.raised = r.raised, !.stats = r.stats]
       /\ pc' = IF r.raised # "" THEN "crash" ELSE "menu"
  /\ UNCHANGED <<file, movies, loaded, nOpen, nCreate, nRemoved>>

\* Choice 7: all genres, each with len(filter_by_genre(genre)).
Choice7 ==
  /\ pc = "choice"
  /\ LET genres == get_unique_genres(movies) IN
       /\ cmd' = [NoCmd EXCEPT !.choice = "7"]
       /\ out' = [NoOut EXCEPT !.genres = genres,
                               !.counts = [i \in 1..Len(genres) |->
                                             Len(filter_by_genre(movies, genres[i]))]]
  /\ pc' = "menu"
  /\ UNCHANGED <<file, movies, loaded, nOpen, nCreate, nRemoved>>

\* Choice 8: exit.
Choice8 ==
  /\ pc = "choice"
  /\ cmd' = [NoCmd EXCEPT !.choice = "8"]
  /\ out' = NoOut
  /\ pc' = "exit"
  /\ UNCHANGED <<file, movies, loaded, nOpen, nCreate, nRemoved>>

\* Anything else: "Invalid choice. Please try again."
ChoiceInvalid ==
  /\ pc = "choice"
  /\ \E typed \in OtherChoices : cmd' = [NoCmd EXCEPT !.choice = typed, !.valid = FALSE]
  /\ out' = NoOut
  /\ pc' = "menu"
  /\ UNCHANGED <<file, movies, loaded, nOpen, nCreate, nRemoved>>

----------------------------------------------------------------------------
(* The program *)

\* After MovieRecommendationSystem(): no movies; the backing file is
\* absent or holds any rows.
Init ==
  /\ file \in {MissingFile}
              \cup { [exists |-> TRUE, rows |-> rows] : rows \in SeqsUpTo(FileRows, MaxRows) }
  /\ movies = <<>>
  /\ pc = "load"
  /\ loaded = "pending"
  /\ nOpen = 0
  /\ nCreate = 0
  /\ nRemoved = 0
  /\ cmd = NoCmd
  /\ out = NoOut

Next ==
  \/ LoadRead
  \/ LoadIOError
  \/ LoadNotFound
  \/ CreateSampleCsv
  \/ FileRemoved
  \/ PrintMenu
  \/ Choice1
  \/ Choice2
  \/ Choice3
  \/ Choice4
  \/ Choice5
  \/ Choice6
  \/ Choice7
  \/ Choice8
  \/ ChoiceInvalid

Spec == Init /\ [][Next]_vars

----------------------------------------------------------------------------
(* Properties *)

\* The elements of ms at the positions I, in catalog order.
Pick(ms, I) ==
  [k \in 1..Cardinality(I) |->
     ms[CHOOSE i \in I : Cardinality({ j \in I : j <= i }) = k]]

\* The elements of ms at the positions I by non-increasing rating, equal
\* ratings in catalog order.
RankedDesc(ms, I) ==
  [k \in 1..Cardinality(I) |->
     ms[CHOOSE i \in I :
          Cardinality({ j \in I : \/ ms[j].Rating.num > ms[i].Rating.num
                                  \/ /\ ms[j].Rating.num = ms[i].Rating.num
                                     /\ j < i }) = k - 1]]

FirstN(s, n) == [k \in 1..Min(n, Len(s)) |-> s[k]]

SameGenre(m, genre) == Lower(m.Genre) = Lower(genre)

AllTyped(ms) ==
  \A i \in 1..Len(ms) : ms[i].Rating.kind = "float" /\ ms[i].Year.kind = "int"

\* C1: once load_movies has returned, either it reported success and every
\* row of the file is in the catalog, typed, or it reported failure and the
\* catalog is empty.
C1_NoPartialCatalog ==
  /\ loaded = "True" => Len(movies) = Len(file.rows) /\ AllTyped(movies)
  /\ loaded = "False" => movies = <<>>

\* C2: one top-level load_movies call performs at most one bootstrap
\* (create_sample_csv) and at most two read attempts, whatever the file
\* collaborator does.
C2_OneBootstrapTwoReads == nCreate <= 1 /\ nOpen <= 2

\* A record passes every option that is present in the preference set.
Satisfies(m, p) ==
  /\ p.genre.given => SameGenre(m, p.genre.val)
  /\ p.min_rating.given => m.Rating.num >= p.min_rating.val
  /\ p.year_from.given => m.Year.num >= p.year_from.val
  /\ p.year_to.given => m.Year.num <= p.year_to.val

\* C3: recommend_movies returns the first at most 5 records, by descending
\* rating and stably, of the catalog records that satisfy every present
\* option, a present option of value zero included.
C3_RecommendAppliesPresentOptions ==
  cmd.choice = "4" =>
    out.movies = FirstN(RankedDesc(movies, { i \in 1..Len(movies) :
                                             Satisfies(movies[i], cmd.preferences) }), 5)

\* C4: get_top_movies(n, genre) returns the first min(n, size) records, by
\* non-increasing rating and stably, of the whole catalog when no genre is
\* given and of the case-insensitive matches of the given genre otherwise.
C4_TopMoviesOfScopedSet ==
  cmd.choice = "5" /\ cmd.sub \in {"1", "2"} =>
    LET scoped == IF cmd.sub = "1" THEN 1..Len(movies)
                  ELSE { i \in 1..Len(movies) : SameGenre(movies[i], cmd.genre) }
    IN out.movies = FirstN(RankedDesc(movies, scoped), TopN)

\* C5: get_statistics on an empty catalog raises and returns no record; on
\* a non-empty catalog it returns a record whose total_movies is the
\* catalog's length.
C5_StatisticsOfEmptyCatalogRaises ==
  cmd.choice = "6" =>
    IF movies = <<>>
    THEN out.raised # "" /\ out.stats = <<>>
    ELSE out.raised = "" /\ Len(out.stats) = 1
         /\ out.stats[1].total_movies = Len(movies)

C5_Witness == cmd.choice = "6" /\ movies = <<>> /\ out.raised = "StatisticsError"

\* C6: after a successful load the menu loop is left only through choice 8,
\* never through an uncaught error.
C6_LoopLeftOnlyByExit ==
  loaded = "True" /\ pc \notin {"menu", "choice"} => pc = "exit" /\ cmd.choice = "8"

\* C7: filter_by_genre returns exactly the catalog records whose genre
\* equals the target case-insensitively, each once, in catalog order (no
\* record when none matches).
C7_FilterByGenreExact ==
  cmd.choice = "1" =>
    out.movies = Pick(movies, { i \in 1..Len(movies) : SameGenre(movies[i], cmd.genre) })

C7_Witness ==
  /\ cmd.choice = "1"
  /\ out.movies # <<>>
  /\ Len(out.movies) < Len(movies)
  /\ \E k \in 1..Len(out.movies) : out.movies[k].Genre # cmd.genre

\* C8: after a successful load no step of the program (every query method
\* is called from a menu command) changes self.movies.
C8_QueriesLeaveCatalog == [][loaded = "True" => movies' = movies]_vars

C8_Witness ==
  /\ loaded = "True"
  /\ cmd.choice = "5" /\ cmd.sub = "1"
  /\ Len(out.movies) = Len(movies)
  /\ out.movies # movies
  /\ movies = Coerce(file.rows).movies

\* C9: a run whose load_movies returned failure ends there: the menu loop
\* is never entered and no command is handled.
C9_FailedLoadServesNoQuery ==
  loaded = "False" => pc = "failed" /\ cmd = NoCmd /\ out = NoOut

C9_Witness == loaded = "False" /\ pc = "failed" /\ movies # <<>>

RECURSIVE SumOfCounts(_, _)
SumOfCounts(gs, keys) ==
  IF keys = {} THEN 0
  ELSE LET g == CHOOSE x \in keys : TRUE
       IN gs[g].count + SumOfCounts(gs, keys \ {g})

\* C10: genre_statistics partitions a non-empty catalog: its keys are the
\* distinct stored genres, each count is the number of records stored with
\* exactly that genre, and the counts sum to total_movies.
C10_GenreStatisticsPartition ==
  cmd.choice = "6" /\ movies # <<>> /\ Len(out.stats) = 1 =>
    LET gs == out.stats[1].genre_statistics IN
      /\ DOMAIN gs = { movies[i].Genre : i \in 1..Len(movies) }
      /\ \A g \in DOMAIN gs :
           gs[g].count = Cardinality({ i \in 1..Len(movies) : movies[i].Genre = g })
      /\ SumOfCounts(gs, DOMAIN gs) = out.stats[1].total_movies

====
